---------------------------- MODULE Spec2Model ----------------------------
(***************************************************************************)
(* A model of iceoryx's MemPool (iceoryx_posh/source/mepoo/mem_pool.cpp)   *)
(* used by several processes that map the same shared memory, and of the   *)
(* FileLock (iceoryx_hoofs/posix_wrapper/file_lock.hpp) that guards the    *)
(* creation of the shared region.  Further parts model the ChunkHeader at  *)
(* the begin of every chunk, the arithmetic of the MemPool constructor on  *)
(* 64 bit values, and the conversions between chunk indices and pointers.  *)
(*                                                                         *)
(* Every action is one atomic step of a process: one access to the shared  *)
(* memory (a pop or push on the free-index list, one atomic load, store,   *)
(* fetch_add or fetch_sub) together with the process-local computation     *)
(* around it.                                                              *)
(***************************************************************************)
EXTENDS Integers, FiniteSets, Sequences, TLC

(***************************************************************************)
(* Bounds of the model.                                                    *)
(***************************************************************************)
\* the processes that map the pool are 1..NumProcs
NumProcs == 2
\* the pool is constructed with 1..MaxChunks chunks
MaxChunks == 2

\* every process has room for the FileLock objects 1..NumSlots
NumSlots == 2

Procs == 1..NumProcs
Slots == 1..NumSlots

(***************************************************************************)
(* uint32_t arithmetic.  TLC's integers are 32 bit signed, so a uint32_t   *)
(* is stored as the int32_t with the same bits (two's complement):         *)
(* 0 .. 2^31-1 stand for themselves, and -1 stands for 2^32-1, -2 for      *)
(* 2^32-2 and so on.  The operators below are the operations modulo 2^32   *)
(* on that representation.                                                 *)
(***************************************************************************)
INT32_MAX == 2147483647
INT32_MIN == -INT32_MAX - 1

\* x + 1 modulo 2^32
Inc32(x) == IF x = INT32_MAX THEN INT32_MIN ELSE x + 1

\* x - 1 modulo 2^32
Dec32(x) == IF x = INT32_MIN THEN INT32_MAX ELSE x - 1

\* a - b modulo 2^32
Sub32(a, b) ==
    IF b >= 0 /\ a < INT32_MIN + b
        THEN (((a + INT32_MAX) + 1) - b) + INT32_MAX + 1
    ELSE IF b < 0 /\ a > INT32_MAX + b
        THEN (((a - INT32_MAX) - 1) - b) - INT32_MAX - 1
    ELSE a - b

\* a < b as unsigned numbers
Less32(a, b) ==
    IF (a >= 0) = (b >= 0) THEN a < b ELSE a >= 0

\* std::min on uint32_t
Min32(a, b) == IF Less32(b, a) THEN b ELSE a

(***************************************************************************)
(* The pool's configuration.                                               *)
(***************************************************************************)
\* m_chunkSize: the size of a chunk in bytes
ChunkSize == 32
\* m_rawMemory: the address of chunk 0 in the chunk memory
RawMemory == 128
\* nullptr
NULL == 0

\* the error tags of the fatal paths
NO_ERROR == "NO_ERROR"
EXPECTS_ENSURES_FAILED == "EXPECTS_ENSURES_FAILED"
POSH__MEMPOOL_POSSIBLE_DOUBLE_FREE == "POSH__MEMPOOL_POSSIBLE_DOUBLE_FREE"

VARIABLES
    m_numberOfChunks,  \* the number of chunks of the pool (uint32_t)
    m_freeIndices,     \* the free-index list: index -> number of times it is in the list
    m_usedChunks,      \* atomic uint32_t
    m_minFree,         \* atomic uint32_t
    pc,                \* where each process is in getChunk / freeChunk
    index,             \* getChunk's local variable index
    loadedUsed,        \* adjustMinFree: the value m_usedChunks.load() returned
    loadedMinFree,     \* adjustMinFree: the value m_minFree.load() returned
    gotNull,           \* TRUE when the process's last call was a getChunk that returned nullptr
    held,              \* the chunk pointers the caller got from getChunk and has not released
    released,          \* the chunk pointers the caller released since the last getChunk call
    error,             \* the error the process terminated with
    lowestFree         \* history: the least m_numberOfChunks - m_usedChunks of all states so far

poolVars == <<m_numberOfChunks, m_freeIndices, m_usedChunks, m_minFree, pc, index,
              loadedUsed, loadedMinFree, gotNull, held, released, error, lowestFree>>

VARIABLES
    openFiles,         \* the operating system's open files: [proc, fd, path]
    fileLocks,         \* the locks flock has granted: [proc, fd, path, op]
    fileLock,          \* the FileLock objects of each process: m_fd, m_fileLockPath
    createPc,          \* where each process is in FileLockBuilder::create
    createFd,          \* create: the descriptor open returned
    createPath,        \* create: the path of the lock file
    createSlot,        \* create: the object that receives the FileLock
    createResult       \* what create returned, when create was the process's last call

fileLockVars == <<openFiles, fileLocks, fileLock, createPc, createFd, createPath,
                  createSlot, createResult>>

VARIABLES
    chunkHeader,       \* a ChunkHeader object: its address and its fields
    chunkMemory,       \* the back-offset fields written into the chunk: [address, value]
    chunkLayout,       \* what the caller knows of the chunk's layout: the constructor's arguments
    headerResult       \* the last operation on the ChunkHeader and what it returned

chunkHeaderVars == <<chunkHeader, chunkMemory, chunkLayout, headerResult>>

VARIABLES
    construction,      \* a call of MemPool's constructor: arguments, allocators and outcome
    conversion         \* a call of indexToPointer / pointerToIndex: arguments and results

vars == <<poolVars, fileLockVars, chunkHeaderVars, construction, conversion>>

\* the variables an operation on one component leaves alone
exceptPoolVars == <<fileLockVars, chunkHeaderVars, construction, conversion>>
exceptFileLockVars == <<poolVars, chunkHeaderVars, construction, conversion>>
exceptChunkHeaderVars == <<poolVars, fileLockVars, construction, conversion>>
exceptConstructionVars == <<poolVars, fileLockVars, chunkHeaderVars, conversion>>
exceptConversionVars == <<poolVars, fileLockVars, chunkHeaderVars, construction>>

Indices == 0..(m_numberOfChunks - 1)

(***************************************************************************)
(* The free-index list (freeList_t).  Its contract: a bounded container of *)
(* indices; push fails when it is full, pop returns some index of it and   *)
(* fails when it is empty; both are atomic.                                *)
(***************************************************************************)
RECURSIVE SumOver(_, _)
SumOver(f, S) ==
    IF S = {} THEN 0
    ELSE LET x == CHOOSE y \in S : TRUE IN f[x] + SumOver(f, S \ {x})

\* the number of indices in the list
size(q) == SumOver(q, DOMAIN q)

\* init(memory, capacity): the list holds every index 0..capacity-1 once
init(capacity) == [i \in 0..(capacity - 1) |-> 1]

\* whether push(i) succeeds on the list q of the given capacity
pushSucceeds(q, capacity, i) == size(q) < capacity

\* the list after a successful push(i)
push(q, i) == [q EXCEPT ![i] = @ + 1]

\* the indices pop may return; pop fails when there is none
popCandidates(q) == {i \in DOMAIN q : q[i] > 0}

\* the list after pop returned i
pop(q, i) == [q EXCEPT ![i] = @ - 1]

(***************************************************************************)
(* MemPool                                                                 *)
(***************************************************************************)
\* a constructor that leaves index 0 out of the free-index list
MemPoolWithoutIndex0(numberOfChunks) ==
    /\ m_numberOfChunks = numberOfChunks
    /\ m_minFree = numberOfChunks
    /\ m_usedChunks = 0
    /\ m_freeIndices = [init(numberOfChunks) EXCEPT ![0] = 0]

\* MemPool::MemPool: the state after a successful construction
MemPool(numberOfChunks) ==
    /\ m_numberOfChunks = numberOfChunks
    /\ m_minFree = numberOfChunks
    /\ m_usedChunks = 0
    /\ m_freeIndices = init(numberOfChunks)

PoolInit ==
    /\ \E n \in 1..MaxChunks : MemPool(n)
    /\ pc = [p \in Procs |-> "idle"]
    /\ index = [p \in Procs |-> 0]
    /\ loadedUsed = [p \in Procs |-> 0]
    /\ loadedMinFree = [p \in Procs |-> 0]
    /\ gotNull = [p \in Procs |-> FALSE]
    /\ held = [p \in Procs |-> {}]
    /\ released = [p \in Procs |-> {}]
    /\ error = [p \in Procs |-> NO_ERROR]
    /\ lowestFree = m_numberOfChunks

\* indexToPointer without the scaling by the chunk size
indexToPointerUnscaled(i, chunkSize, rawMemoryBase) == rawMemoryBase + i

\* MemPool::indexToPointer
indexToPointer(i, chunkSize, rawMemoryBase) ==
    LET offset == i * chunkSize
    IN  rawMemoryBase + offset

\* pointerToIndex with the offset taken from address 0
pointerToIndexFromNull(chunk, chunkSize, rawMemoryBase) == chunk \div chunkSize

\* MemPool::pointerToIndex, where IOX_EXPECTS(offset % chunkSize == 0) holds
pointerToIndex(chunk, chunkSize, rawMemoryBase) ==
    LET offset == chunk - rawMemoryBase
    IN  offset \div chunkSize

\* errorHandler / IOX_EXPECTS failing: the process is terminated with the tag
errorHandler(p, tag) ==
    /\ pc' = [pc EXCEPT ![p] = "fatal"]
    /\ error' = [error EXCEPT ![p] = tag]
    /\ gotNull' = [gotNull EXCEPT ![p] = FALSE]
    /\ released' = [released EXCEPT ![p] = {}]

\* getChunk that treats an empty free-index list as a fatal error
GetChunkFatalWhenEmpty(p) ==
    /\ pc[p] = "idle"
    /\ IF popCandidates(m_freeIndices) = {}
         THEN /\ errorHandler(p, EXPECTS_ENSURES_FAILED)
              /\ UNCHANGED <<m_freeIndices, index>>
         ELSE \E i \in popCandidates(m_freeIndices) :
                /\ m_freeIndices' = pop(m_freeIndices, i)
                /\ index' = [index EXCEPT ![p] = i]
                /\ pc' = [pc EXCEPT ![p] = "fetch_add"]
                /\ gotNull' = [gotNull EXCEPT ![p] = FALSE]
                /\ released' = [q \in Procs |-> {}]
                /\ UNCHANGED error
    /\ UNCHANGED <<m_numberOfChunks, m_usedChunks, m_minFree, loadedUsed,
                   loadedMinFree, held, lowestFree>>

\* getChunk that takes a lock first, which a process holds from the first to
\* the last step of its call
GetChunkLocked(p) ==
    /\ pc[p] = "idle"
    /\ \A q \in Procs \ {p} : pc[q] \in {"idle", "fatal"}
    /\ released' = [q \in Procs |-> {}]
    /\ IF popCandidates(m_freeIndices) = {}
         THEN /\ gotNull' = [gotNull EXCEPT ![p] = TRUE]
              /\ UNCHANGED <<m_freeIndices, pc, index>>
         ELSE \E i \in popCandidates(m_freeIndices) :
                /\ m_freeIndices' = pop(m_freeIndices, i)
                /\ index' = [index EXCEPT ![p] = i]
                /\ pc' = [pc EXCEPT ![p] = "fetch_add"]
                /\ gotNull' = [gotNull EXCEPT ![p] = FALSE]
    /\ UNCHANGED <<m_numberOfChunks, m_usedChunks, m_minFree, loadedUsed,
                   loadedMinFree, held, error, lowestFree>>

\* getChunk that counts the chunk before it looks at the result of pop
GetChunkCountingFailure(p) ==
    /\ pc[p] = "idle"
    /\ released' = [q \in Procs |-> {}]
    /\ IF popCandidates(m_freeIndices) = {}
         THEN /\ gotNull' = [gotNull EXCEPT ![p] = TRUE]
              /\ m_usedChunks' = Inc32(m_usedChunks)
              /\ UNCHANGED <<m_freeIndices, pc, index>>
         ELSE \E i \in popCandidates(m_freeIndices) :
                /\ m_freeIndices' = pop(m_freeIndices, i)
                /\ index' = [index EXCEPT ![p] = i]
                /\ pc' = [pc EXCEPT ![p] = "fetch_add"]
                /\ gotNull' = [gotNull EXCEPT ![p] = FALSE]
                /\ UNCHANGED m_usedChunks
    /\ UNCHANGED <<m_numberOfChunks, m_minFree, loadedUsed,
                   loadedMinFree, held, error, lowestFree>>

\* getChunk, first step: m_freeIndices.pop(index)
GetChunk(p) ==
    /\ pc[p] = "idle"
    /\ released' = [q \in Procs |-> {}]
    /\ IF popCandidates(m_freeIndices) = {}
         THEN /\ gotNull' = [gotNull EXCEPT ![p] = TRUE]
              /\ UNCHANGED <<m_freeIndices, pc, index>>
         ELSE \E i \in popCandidates(m_freeIndices) :
                /\ m_freeIndices' = pop(m_freeIndices, i)
                /\ index' = [index EXCEPT ![p] = i]
                /\ pc' = [pc EXCEPT ![p] = "fetch_add"]
                /\ gotNull' = [gotNull EXCEPT ![p] = FALSE]
    /\ UNCHANGED <<m_numberOfChunks, m_usedChunks, m_minFree, loadedUsed,
                   loadedMinFree, held, error, lowestFree>>

\* getChunk: m_usedChunks.fetch_add(1U)
GetChunkFetchAdd(p) ==
    /\ pc[p] = "fetch_add"
    /\ m_usedChunks' = Inc32(m_usedChunks)
    /\ lowestFree' = Min32(lowestFree, Sub32(m_numberOfChunks, m_usedChunks'))
    /\ pc' = [pc EXCEPT ![p] = "adjustMinFree"]
    /\ UNCHANGED <<m_numberOfChunks, m_freeIndices, m_minFree, index, loadedUsed,
                   loadedMinFree, gotNull, held, released, error>>

\* adjustMinFree: m_usedChunks.load().  The two loads are the arguments of
\* std::min, so either may come first.
AdjustMinFreeLoadUsed(p) ==
    /\ pc[p] \in {"adjustMinFree", "minFreeLoaded"}
    /\ loadedUsed' = [loadedUsed EXCEPT ![p] = m_usedChunks]
    /\ pc' = [pc EXCEPT ![p] = IF pc[p] = "adjustMinFree" THEN "usedLoaded" ELSE "store"]
    /\ UNCHANGED <<m_numberOfChunks, m_freeIndices, m_usedChunks, m_minFree, index,
                   loadedMinFree, gotNull, held, released, error, lowestFree>>

\* adjustMinFree: m_minFree.load()
AdjustMinFreeLoadMinFree(p) ==
    /\ pc[p] \in {"adjustMinFree", "usedLoaded"}
    /\ loadedMinFree' = [loadedMinFree EXCEPT ![p] = m_minFree]
    /\ pc' = [pc EXCEPT ![p] = IF pc[p] = "adjustMinFree" THEN "minFreeLoaded" ELSE "store"]
    /\ UNCHANGED <<m_numberOfChunks, m_freeIndices, m_usedChunks, m_minFree, index,
                   loadedUsed, gotNull, held, released, error, lowestFree>>

\* adjustMinFree with std::max in the place of std::min
adjustMinFreeMax(numberOfChunks, usedChunks, minFree) ==
    IF Less32(Sub32(numberOfChunks, usedChunks), minFree)
        THEN minFree
        ELSE Sub32(numberOfChunks, usedChunks)

\* the value adjustMinFree stores
adjustMinFree(numberOfChunks, usedChunks, minFree) ==
    Min32(Sub32(numberOfChunks, usedChunks), minFree)

\* adjustMinFree: m_minFree.store(...), and getChunk returns the pointer
AdjustMinFreeStore(p) ==
    /\ pc[p] = "store"
    /\ m_minFree' = adjustMinFree(m_numberOfChunks, loadedUsed[p], loadedMinFree[p])
    /\ LET chunk == indexToPointer(index[p], ChunkSize, RawMemory)
       IN  /\ held' = [held EXCEPT ![p] = @ \cup {chunk}]
    /\ pc' = [pc EXCEPT ![p] = "idle"]
    /\ index' = [index EXCEPT ![p] = 0]
    /\ loadedUsed' = [loadedUsed EXCEPT ![p] = 0]
    /\ loadedMinFree' = [loadedMinFree EXCEPT ![p] = 0]
    /\ UNCHANGED <<m_numberOfChunks, m_freeIndices, m_usedChunks, gotNull, released, error,
                   lowestFree>>

\* freeChunk without pointerToIndex's IOX_EXPECTS(offset % chunkSize == 0)
validChunkAnyOffset(chunk) ==
    LET offsetToLastChunk == ChunkSize * (m_numberOfChunks - 1)
    IN  RawMemory <= chunk /\ chunk <= RawMemory + offsetToLastChunk

\* freeChunk's two IOX_EXPECTS: the pointer is in the pool's range and on a
\* chunk boundary
validChunk(chunk) ==
    LET offsetToLastChunk == ChunkSize * (m_numberOfChunks - 1)
    IN  /\ RawMemory <= chunk /\ chunk <= RawMemory + offsetToLastChunk
        /\ (chunk - RawMemory) % ChunkSize = 0

\* freeChunk(chunk), first step: the two IOX_EXPECTS and m_freeIndices.push(index)
freeChunk(p, chunk) ==
    /\ pc[p] = "idle"
    /\ IF ~validChunk(chunk)
         THEN /\ errorHandler(p, EXPECTS_ENSURES_FAILED)
              /\ UNCHANGED <<m_freeIndices, held>>
         ELSE LET i == pointerToIndex(chunk, ChunkSize, RawMemory)
              IN  IF ~pushSucceeds(m_freeIndices, m_numberOfChunks, i)
                    THEN /\ errorHandler(p, POSH__MEMPOOL_POSSIBLE_DOUBLE_FREE)
                         /\ UNCHANGED <<m_freeIndices, held>>
                    ELSE /\ m_freeIndices' = push(m_freeIndices, i)
                         /\ pc' = [pc EXCEPT ![p] = "fetch_sub"]
                         /\ held' = [held EXCEPT ![p] = @ \ {chunk}]
                         /\ released' = [released EXCEPT ![p] = @ \cup {chunk}]
                         /\ gotNull' = [gotNull EXCEPT ![p] = FALSE]
                         /\ UNCHANGED error
    /\ UNCHANGED <<m_numberOfChunks, m_usedChunks, m_minFree, index, loadedUsed,
                   loadedMinFree, lowestFree>>

\* freeChunk that leaves m_usedChunks as it is
FreeChunkNoFetchSub(p) ==
    /\ pc[p] = "fetch_sub"
    /\ pc' = [pc EXCEPT ![p] = "idle"]
    /\ UNCHANGED <<m_numberOfChunks, m_freeIndices, m_usedChunks, m_minFree, index,
                   loadedUsed, loadedMinFree, gotNull, held, released, error, lowestFree>>

\* freeChunk: m_usedChunks.fetch_sub(1U)
FreeChunkFetchSub(p) ==
    /\ pc[p] = "fetch_sub"
    /\ m_usedChunks' = Dec32(m_usedChunks)
    /\ lowestFree' = Min32(lowestFree, Sub32(m_numberOfChunks, m_usedChunks'))
    /\ pc' = [pc EXCEPT ![p] = "idle"]
    /\ UNCHANGED <<m_numberOfChunks, m_freeIndices, m_minFree, index, loadedUsed,
                   loadedMinFree, gotNull, held, released, error>>

\* a caller releases a chunk it holds
FreeChunk(p) == \E chunk \in held[p] : freeChunk(p, chunk)

\* a caller releases once more a chunk it has released, with no getChunk call
\* since
FreeChunkAgain(p) == \E chunk \in released[p] : freeChunk(p, chunk)

\* pointers that are no chunk of the pool: the addresses one chunk below the
\* first and one chunk above the last chunk, and addresses off the chunk
\* boundaries
Pointers ==
    {RawMemory - ChunkSize, RawMemory + m_numberOfChunks * ChunkSize,
     RawMemory + 1, RawMemory + ChunkSize - 1, RawMemory - 1}

\* a caller releases a pointer that is no chunk of the pool
FreeNoChunk(p) == \E chunk \in Pointers : freeChunk(p, chunk)

\* where a process is between getChunk's pop and its return
InGetChunk == {"fetch_add", "adjustMinFree", "usedLoaded", "minFreeLoaded", "store"}

\* the process stops for good, wherever it is.  Its local variables are gone;
\* held[p] keeps what is lost with it: the chunks it held and the chunk whose
\* index it had popped
Crash(p) ==
    /\ pc[p] \notin {"fatal", "crashed"}
    /\ pc' = [pc EXCEPT ![p] = "crashed"]
    /\ held' = [held EXCEPT ![p] =
                  IF pc[p] \in InGetChunk
                    THEN @ \cup {indexToPointer(index[p], ChunkSize, RawMemory)}
                    ELSE @]
    /\ index' = [index EXCEPT ![p] = 0]
    /\ loadedUsed' = [loadedUsed EXCEPT ![p] = 0]
    /\ loadedMinFree' = [loadedMinFree EXCEPT ![p] = 0]
    /\ gotNull' = [gotNull EXCEPT ![p] = FALSE]
    /\ released' = [released EXCEPT ![p] = {}]
    /\ UNCHANGED <<m_numberOfChunks, m_freeIndices, m_usedChunks, m_minFree, error,
                   lowestFree>>

\* one step of process p inside getChunk or freeChunk
Step(p) ==
    \/ GetChunkFetchAdd(p)
    \/ AdjustMinFreeLoadUsed(p)
    \/ AdjustMinFreeLoadMinFree(p)
    \/ AdjustMinFreeStore(p)
    \/ FreeChunkFetchSub(p)

(***************************************************************************)
(* ChunkHeader                                                             *)
(*                                                                         *)
(* chunk_header.hpp and chunk_header.cpp are not among the sources.  The   *)
(* constructor, payload, fromPayload and usedSizeOfChunk are modelled from *)
(* the specification (sections 3, 4.4 and 6) and from what                 *)
(* test_mepoo_chunk_header.cpp does with them.                             *)
(***************************************************************************)
\* 2^16: a uint32_t is two digits of base 2^16, a uint64_t is four
TwoTo16 == 256 * 256

\* the upper and the lower 16 bits of a uint32_t
Hi16(x) ==
    IF x >= 0 THEN x \div TwoTo16
              ELSE (TwoTo16 \div 2) + ((x - INT32_MIN) \div TwoTo16)
Lo16(x) ==
    IF x >= 0 THEN x % TwoTo16
              ELSE (x - INT32_MIN) % TwoTo16

\* the uint32_t with the upper 16 bits hi and the lower 16 bits lo
From16(hi, lo) ==
    IF hi < TwoTo16 \div 2
        THEN hi * TwoTo16 + lo
        ELSE INT32_MIN + ((hi - TwoTo16 \div 2) * TwoTo16 + lo)

\* a + b with the carry lost: the sum in 32 bits
Add32AsSum(a, b) ==
    LET lo == Lo16(a) + Lo16(b)
        hi == Hi16(a) + Hi16(b) + lo \div TwoTo16
    IN  <<0, hi % TwoTo16, lo % TwoTo16>>

\* static_cast<uint64_t>(a) + static_cast<uint64_t>(b) of two uint32_t: the
\* bits from 32 on, the bits 16..31 and the bits 0..15 of the sum
Add64(a, b) ==
    LET lo == Lo16(a) + Lo16(b)
        hi == Hi16(a) + Hi16(b) + lo \div TwoTo16
    IN  <<hi \div TwoTo16, hi % TwoTo16, lo % TwoTo16>>

\* sum <= c for a sum of Add64 and a uint32_t c
LessEq64_32(sum, c) ==
    /\ sum[1] = 0
    /\ \/ sum[2] < Hi16(c)
       \/ sum[2] = Hi16(c) /\ sum[3] <= Lo16(c)

\* static_cast<uint32_t>(sum)
Cast32(sum) == From16(sum[2], sum[3])

\* std::numeric_limits<uint32_t>::max()
UINT32_MAX == -1

\* the smallest multiple of alignment that is >= value
alignUp(value, alignment) == ((value + alignment - 1) \div alignment) * alignment

\* the header is aligned to 32 bytes and its fields end at offset 36
ChunkHeaderAlignment == 32
ChunkHeaderFieldsSize == 36

\* sizeof(ChunkHeader) and sizeof(ChunkHeader::PayloadOffset_t)
sizeofChunkHeader == alignUp(ChunkHeaderFieldsSize, ChunkHeaderAlignment)
sizeofPayloadOffset == 4

\* iox::CHUNK_NO_CUSTOM_HEADER_SIZE
CHUNK_NO_CUSTOM_HEADER_SIZE == 0

\* the arguments the constructor is called with
ChunkHeaderAddresses == {RawMemory, RawMemory + 2 * sizeofChunkHeader}
ChunkSizes == {32, 2 * sizeofChunkHeader, 256}
PayloadSizes == {0, 1, 8, 128, INT32_MIN, UINT32_MAX}
PayloadAlignments == {1, 8, 32}
CustomHeaderSizes == {CHUNK_NO_CUSTOM_HEADER_SIZE, 8, 13}
CustomHeaderAlignments == {1, 8}

\* ChunkHeader::ChunkHeader: the object at the address this.  The payload
\* follows the header, or, with a custom header, begins at the smallest
\* offset that leaves room for the custom header and the back-offset field
\* and satisfies the alignment of the payload.  Nothing is checked.
ChunkHeader(this, chunkSize, payloadSize, payloadAlignment, customHeaderSize, customHeaderAlignment) ==
    [this |-> this,
     chunkSize |-> chunkSize,
     payloadSize |-> payloadSize,
     payloadOffset |->
        IF customHeaderSize = CHUNK_NO_CUSTOM_HEADER_SIZE
            THEN sizeofChunkHeader
            ELSE alignUp(sizeofChunkHeader + customHeaderSize + sizeofPayloadOffset,
                         payloadAlignment)]

\* ChunkHeader::payload
payload(header) == header.this + header.payloadOffset

\* the back-offset field the constructor writes in front of the payload of a
\* chunk with a custom header
backOffset(header, customHeaderSize) ==
    IF customHeaderSize = CHUNK_NO_CUSTOM_HEADER_SIZE
        THEN {}
        ELSE {[address |-> payload(header) - sizeofPayloadOffset,
               value |-> header.payloadOffset]}

\* the PayloadOffset_t read at an address of the chunk
readPayloadOffset(memory, address) ==
    (CHOOSE cell \in memory : cell.address = address).value

\* fromPayload for chunks whose payload follows the header
fromPayloadAdjacent(payloadPointer, customHeaderSize, memory) ==
    IF payloadPointer = NULL
        THEN NULL
        ELSE payloadPointer - sizeofChunkHeader

\* ChunkHeader::fromPayload: the back-offset field is read when the chunk has
\* a custom header
fromPayload(payloadPointer, customHeaderSize, memory) ==
    IF payloadPointer = NULL
        THEN NULL
    ELSE IF customHeaderSize = CHUNK_NO_CUSTOM_HEADER_SIZE
        THEN payloadPointer - sizeofChunkHeader
    ELSE payloadPointer
            - readPayloadOffset(memory, payloadPointer - sizeofPayloadOffset)

\* usedSizeOfChunk with payloadOffset + payloadSize computed in 32 bits
usedSizeOfChunk32(header) ==
    LET sum == Add32AsSum(header.payloadOffset, header.payloadSize)
    IN  IF LessEq64_32(sum, header.chunkSize)
          THEN [fatal |-> FALSE, value |-> Cast32(sum)]
          ELSE [fatal |-> TRUE, value |-> NULL]

\* ChunkHeader::usedSizeOfChunk: payloadOffset + payloadSize, fatal when the
\* sum exceeds chunkSize (the test with payloadSize = UINT32_MAX expects the
\* termination, so the sum is not taken modulo 2^32)
usedSizeOfChunk(header) ==
    LET sum == Add64(header.payloadOffset, header.payloadSize)
    IN  IF LessEq64_32(sum, header.chunkSize)
          THEN [fatal |-> FALSE, value |-> Cast32(sum)]
          ELSE [fatal |-> TRUE, value |-> NULL]

\* the names of the operations in headerResult
OP_NONE == "none"
OP_CONSTRUCTOR == "ChunkHeader"
OP_SET_CHUNK_SIZE == "chunkSize ="
OP_PAYLOAD == "payload"
OP_FROM_PAYLOAD == "fromPayload"
OP_USED_SIZE_OF_CHUNK == "usedSizeOfChunk"

\* what an operation returned
Returned(op, arg, value) == [op |-> op, arg |-> arg, value |-> value, fatal |-> FALSE]
Terminated(op, arg) == [op |-> op, arg |-> arg, value |-> NULL, fatal |-> TRUE]

\* no ChunkHeader
NoChunkHeader ==
    /\ chunkHeader = [this |-> NULL, chunkSize |-> 0, payloadSize |-> 0, payloadOffset |-> 0]
    /\ chunkMemory = {}
    /\ chunkLayout = [payloadAlignment |-> 1,
                      customHeaderSize |-> CHUNK_NO_CUSTOM_HEADER_SIZE,
                      customHeaderAlignment |-> 1]
    /\ headerResult = Returned(OP_NONE, NULL, NULL)

\* a ChunkHeader constructed in a chunk
ChunkHeaderInit ==
    \E this \in ChunkHeaderAddresses, chunkSize \in ChunkSizes,
       payloadSize \in PayloadSizes, payloadAlignment \in PayloadAlignments,
       customHeaderSize \in CustomHeaderSizes,
       customHeaderAlignment \in CustomHeaderAlignments :
        /\ chunkHeader = ChunkHeader(this, chunkSize, payloadSize, payloadAlignment,
                                     customHeaderSize, customHeaderAlignment)
        /\ chunkMemory = backOffset(chunkHeader, customHeaderSize)
        /\ chunkLayout = [payloadAlignment |-> payloadAlignment,
                          customHeaderSize |-> customHeaderSize,
                          customHeaderAlignment |-> customHeaderAlignment]
        /\ headerResult = Returned(OP_CONSTRUCTOR, NULL, this)

\* sut.chunkSize = ...: the field is public
SetChunkSize(chunkSize) ==
    /\ ~headerResult.fatal
    /\ chunkHeader' = [chunkHeader EXCEPT !.chunkSize = chunkSize]
    /\ headerResult' = Returned(OP_SET_CHUNK_SIZE, chunkSize, NULL)
    /\ UNCHANGED <<chunkMemory, chunkLayout>>

\* a call of payload()
Payload ==
    /\ ~headerResult.fatal
    /\ headerResult' = Returned(OP_PAYLOAD, NULL, payload(chunkHeader))
    /\ UNCHANGED <<chunkHeader, chunkMemory, chunkLayout>>

\* a call of fromPayload with nullptr or with the pointer payload() returns
FromPayload(payloadPointer) ==
    /\ ~headerResult.fatal
    /\ headerResult' = Returned(OP_FROM_PAYLOAD, payloadPointer,
                                fromPayload(payloadPointer, chunkLayout.customHeaderSize,
                                            chunkMemory))
    /\ UNCHANGED <<chunkHeader, chunkMemory, chunkLayout>>

\* a call of usedSizeOfChunk()
UsedSizeOfChunk ==
    /\ ~headerResult.fatal
    /\ LET result == usedSizeOfChunk(chunkHeader)
       IN  headerResult' =
               IF result.fatal
                 THEN Terminated(OP_USED_SIZE_OF_CHUNK, NULL)
                 ELSE Returned(OP_USED_SIZE_OF_CHUNK, NULL, result.value)
    /\ UNCHANGED <<chunkHeader, chunkMemory, chunkLayout>>

(***************************************************************************)
(* MemPool's constructor with its arguments                                *)
(*                                                                         *)
(* chunkSize is a uint64_t: a sequence of four digits of base 2^16, the    *)
(* most significant first.  numberOfChunks is below 2^15 here, so that the *)
(* intermediate values of the division and the multiplication fit a 32 bit *)
(* integer.                                                                *)
(***************************************************************************)
\* MemPool::CHUNK_MEMORY_ALIGNMENT
CHUNK_MEMORY_ALIGNMENT == 32

\* std::numeric_limits<uint64_t>::max()
UINT64_MAX == <<TwoTo16 - 1, TwoTo16 - 1, TwoTo16 - 1, TwoTo16 - 1>>

\* the uint64_t of a number below 2^16
Small64(value) == <<0, 0, 0, value>>

\* a <= b on uint64_t
LessEq64(a, b) ==
    \/ a = b
    \/ \E k \in 1..4 :
          /\ a[k] < b[k]
          /\ \A j \in 1..(k - 1) : a[j] = b[j]

\* the quotient of the digits x by n, with the remainder r of the digits
\* before them
RECURSIVE Div64(_, _, _)
Div64(x, n, r) ==
    IF x = <<>>
        THEN <<>>
        ELSE LET current == r * TwoTo16 + Head(x)
             IN  <<current \div n>> \o Div64(Tail(x), n, current % n)

\* the remainder of the digits x by n, with the remainder r of the digits
\* before them
RECURSIVE Mod64(_, _, _)
Mod64(x, n, r) ==
    IF x = <<>>
        THEN r
        ELSE Mod64(Tail(x), n, (r * TwoTo16 + Head(x)) % n)

\* the digits of x * n + carry: one digit more than x has
RECURSIVE Mul64(_, _, _)
Mul64(x, n, carry) ==
    IF x = <<>>
        THEN <<carry>>
        ELSE LET product == x[Len(x)] * n + carry
             IN  Mul64(SubSeq(x, 1, Len(x) - 1), n, product \div TwoTo16)
                     \o <<product % TwoTo16>>

\* static_cast<uint64_t>(numberOfChunks) * chunkSize: the lower 64 bits
allocationSize(numberOfChunks, chunkSize) == Tail(Mul64(chunkSize, numberOfChunks, 0))

\* isMultipleOfAlignment that accepts every value
isMultipleOfAlignmentAlways(value) == TRUE

\* MemPool::isMultipleOfAlignment
isMultipleOfAlignment(value) == Mod64(value, CHUNK_MEMORY_ALIGNMENT, 0) = 0

\* m_chunkSize <= std::numeric_limits<uint64_t>::max() / m_numberOfChunks
fitsUint64(chunkSize, numberOfChunks) ==
    LessEq64(chunkSize, Div64(UINT64_MAX, numberOfChunks, 0))

\* the error of the constructor
MEPOO__MEMPOOL_CHUNKSIZE_MUST_BE_MULTIPLE_OF_CHUNK_MEMORY_ALIGNMENT ==
    "MEPOO__MEMPOOL_CHUNKSIZE_MUST_BE_MULTIPLE_OF_CHUNK_MEMORY_ALIGNMENT"

\* the positions of a constructor call
CALLED == "called"
CONSTRUCTED == "constructed"
FATAL == "fatal"

\* nothing allocated
NO_MEMORY == <<>>

\* the arguments of the constructor: chunkSize >= CHUNK_MEMORY_ALIGNMENT and
\* numberOfChunks >= 1, as the types of the parameters demand
ChunkSizeDigits ==
    {<<a, b, c, d>> : a \in {0, TwoTo16 \div 2 - 1, TwoTo16 \div 2, TwoTo16 - 1},
                      b \in {0, TwoTo16 - 1},
                      c \in {0, TwoTo16 - 1},
                      d \in {0, 32, 33, TwoTo16 - 32, TwoTo16 - 1}}
        \cup {<<555, 25547, 61092, 57760>>, <<555, 25547, 61092, 57792>>}
ChunkSizeArguments ==
    {chunkSize \in ChunkSizeDigits : LessEq64(Small64(CHUNK_MEMORY_ALIGNMENT), chunkSize)}
NumberOfChunksArguments == {1, 2, 3, 118, TwoTo16 \div 2 - 1}

\* the memory the chunk-memory allocator has left
AllocatorCapacities == {Small64(64), UINT64_MAX}

\* BumpAllocator::allocate: whether the allocator has the memory
allocate(capacity, bytes) == LessEq64(bytes, capacity)

\* no constructor call
NoConstruction ==
    construction = [chunkSize |-> Small64(CHUNK_MEMORY_ALIGNMENT),
                    numberOfChunks |-> 1,
                    chunkMemoryCapacity |-> UINT64_MAX,
                    managementMemoryAvailable |-> TRUE,
                    state |-> CONSTRUCTED,
                    error |-> NO_ERROR,
                    m_rawMemory |-> Small64(CHUNK_MEMORY_ALIGNMENT),
                    m_freeIndices |-> 1]

\* a constructor call with its arguments and the state of the two allocators
\* (the size of the free-index list's memory is not known here: whether the
\* management allocator has it is an input)
ConstructionInit ==
    \E chunkSize \in ChunkSizeArguments, numberOfChunks \in NumberOfChunksArguments,
       capacity \in AllocatorCapacities, available \in BOOLEAN :
        construction = [chunkSize |-> chunkSize,
                        numberOfChunks |-> numberOfChunks,
                        chunkMemoryCapacity |-> capacity,
                        managementMemoryAvailable |-> available,
                        state |-> CALLED,
                        error |-> NO_ERROR,
                        m_rawMemory |-> NO_MEMORY,
                        m_freeIndices |-> 0]

\* MemPool::MemPool.  m_rawMemory stands for the bytes taken from the
\* chunk-memory allocator, m_freeIndices for the capacity the free-index list
\* was initialised with (0: not initialised).
Construct ==
    /\ construction.state = CALLED
    /\ LET chunkSize == construction.chunkSize
           numberOfChunks == construction.numberOfChunks
           bytes == allocationSize(numberOfChunks, chunkSize)
       IN  construction' =
             IF ~isMultipleOfAlignment(chunkSize)
               THEN [construction EXCEPT
                        !.state = FATAL,
                        !.error = MEPOO__MEMPOOL_CHUNKSIZE_MUST_BE_MULTIPLE_OF_CHUNK_MEMORY_ALIGNMENT]
             ELSE IF ~fitsUint64(chunkSize, numberOfChunks)
               THEN [construction EXCEPT !.state = FATAL, !.error = EXPECTS_ENSURES_FAILED]
             ELSE IF ~allocate(construction.chunkMemoryCapacity, bytes)
               THEN [construction EXCEPT !.state = FATAL, !.error = EXPECTS_ENSURES_FAILED]
             ELSE IF ~construction.managementMemoryAvailable
               THEN [construction EXCEPT !.state = FATAL, !.error = EXPECTS_ENSURES_FAILED,
                                         !.m_rawMemory = bytes]
             ELSE [construction EXCEPT !.state = CONSTRUCTED,
                                       !.m_rawMemory = bytes,
                                       !.m_freeIndices = numberOfChunks]

(***************************************************************************)
(* indexToPointer and pointerToIndex with their arguments                  *)
(***************************************************************************)
\* the pools the functions are called for: chunk size, address of the chunk
\* memory and number of chunks
ConversionChunkSizes == {1, 32, 33, 128, TwoTo16}
ConversionBases == {RawMemory, 4096, 16 * TwoTo16}
ConversionNumbersOfChunks == {1, 2, 3, 1000, TwoTo16 \div 4 - 1}

\* the indices the functions are called with: the first ones, one in the
\* middle and the last one
ConversionIndices(numberOfChunks) ==
    {i \in {0, 1, 2, numberOfChunks \div 2, numberOfChunks - 1} : i < numberOfChunks}

\* the pointers the functions are called with: chunks of the pool, and
\* pointers into the first and the last chunk
ConversionPointers(chunkSize, rawMemoryBase, numberOfChunks) ==
    {rawMemoryBase + i * chunkSize : i \in ConversionIndices(numberOfChunks)}
        \cup {rawMemoryBase + 1, rawMemoryBase + numberOfChunks * chunkSize - 1}

OP_INDEX_TO_POINTER == "indexToPointer"
OP_POINTER_TO_INDEX == "pointerToIndex"

\* no call
NoConversion ==
    conversion = [chunkSize |-> ChunkSize, rawMemoryBase |-> RawMemory,
                  numberOfChunks |-> 1, op |-> OP_NONE, arg |-> NULL,
                  index |-> 0, pointer |-> NULL, fatal |-> FALSE]

\* a pool, no call yet
ConversionInit ==
    \E chunkSize \in ConversionChunkSizes, rawMemoryBase \in ConversionBases,
       numberOfChunks \in ConversionNumbersOfChunks :
        conversion = [chunkSize |-> chunkSize, rawMemoryBase |-> rawMemoryBase,
                      numberOfChunks |-> numberOfChunks, op |-> OP_NONE, arg |-> NULL,
                      index |-> 0, pointer |-> NULL, fatal |-> FALSE]

\* pointerToIndex(indexToPointer(i, ...), ...)
IndexToPointerAndBack(i) ==
    /\ ~conversion.fatal
    /\ LET chunk == indexToPointer(i, conversion.chunkSize, conversion.rawMemoryBase)
       IN  conversion' =
             IF (chunk - conversion.rawMemoryBase) % conversion.chunkSize # 0
               THEN [conversion EXCEPT !.op = OP_INDEX_TO_POINTER, !.arg = i,
                                       !.pointer = chunk, !.fatal = TRUE]
               ELSE [conversion EXCEPT
                        !.op = OP_INDEX_TO_POINTER, !.arg = i, !.pointer = chunk,
                        !.index = pointerToIndex(chunk, conversion.chunkSize,
                                                 conversion.rawMemoryBase)]

\* indexToPointer(pointerToIndex(chunk, ...), ...): IOX_EXPECTS terminates the
\* process when the pointer is not at the begin of a chunk
PointerToIndexAndBack(chunk) ==
    /\ ~conversion.fatal
    /\ conversion' =
         IF (chunk - conversion.rawMemoryBase) % conversion.chunkSize # 0
           THEN [conversion EXCEPT !.op = OP_POINTER_TO_INDEX, !.arg = chunk,
                                   !.fatal = TRUE]
           ELSE LET i == pointerToIndex(chunk, conversion.chunkSize,
                                        conversion.rawMemoryBase)
                IN  [conversion EXCEPT
                        !.op = OP_POINTER_TO_INDEX, !.arg = chunk, !.index = i,
                        !.pointer = indexToPointer(i, conversion.chunkSize,
                                                   conversion.rawMemoryBase)]

(***************************************************************************)
(* FileLock                                                                *)
(*                                                                         *)
(* file_lock.hpp declares the class; its contract (an advisory exclusive   *)
(* non-blocking lock, taken with flock on a file opened at                 *)
(* {path}/{name}.lock, moved with the object, released by the destructor   *)
(* and by the operating system when the process dies) is what the          *)
(* operations below implement.                                             *)
(***************************************************************************)
\* FileLock::INVALID_FD
INVALID_FD == -1

\* FileLock::LOCK_FILE_SUFFIX and the default of FileLockBuilder's path
LOCK_FILE_SUFFIX == <<".lock">>
IOX_LOCK_FILE_PATH_PREFIX == <<"/tmp/">>

\* the flags of flock
LOCK_SH == "LOCK_SH"
LOCK_EX == "LOCK_EX"
LOCK_NB == "LOCK_NB"
LOCK_UN == "LOCK_UN"

\* LockOperation::LOCK taking a shared lock
LockOperation_LOCK_shared == {LOCK_SH, LOCK_NB}

\* LockOperation::LOCK without LOCK_NB: flock waits for the lock
LockOperation_LOCK_blocking == {LOCK_EX}

\* FileLock::LockOperation
LockOperation_LOCK == {LOCK_EX, LOCK_NB}
LockOperation_UNLOCK == {LOCK_UN}

\* the file names create is called with, as sequences of characters
FileNames == {<<"f">>, <<>>, <<"a", "/", "b">>}

\* the FileLockError values create returns in the model, and success
LOCKED_BY_OTHER_PROCESS == "LOCKED_BY_OTHER_PROCESS"
INVALID_FILE_NAME == "INVALID_FILE_NAME"
CREATED == "CREATED"
NO_RESULT == "NO_RESULT"

\* no object
NoFileLock == [exists |-> FALSE, m_fd |-> INVALID_FD, m_fileLockPath |-> <<>>]

\* FileLock::FileLock(fileDescriptor, path)
NewFileLock(fileDescriptor, path) ==
    [exists |-> TRUE, m_fd |-> fileDescriptor, m_fileLockPath |-> path]

\* FileLock::invalidate: the state of a moved-from object
Invalidated == [exists |-> TRUE, m_fd |-> INVALID_FD, m_fileLockPath |-> <<>>]

FileLockInit ==
    /\ openFiles = {}
    /\ fileLocks = {}
    /\ fileLock = [p \in Procs |-> [s \in Slots |-> NoFileLock]]
    /\ createPc = [p \in Procs |-> "idle"]
    /\ createFd = [p \in Procs |-> INVALID_FD]
    /\ createPath = [p \in Procs |-> <<>>]
    /\ createSlot = [p \in Procs |-> 1]
    /\ createResult = [p \in Procs |-> NO_RESULT]

\* a pool after its construction; no FileLock, no ChunkHeader, no other call
Init == PoolInit /\ FileLockInit /\ NoChunkHeader /\ NoConstruction /\ NoConversion

\* create's check of the name: not empty and without a path separator
isValidFileName(name) ==
    /\ Len(name) > 0
    /\ \A k \in 1..Len(name) : name[k] # "/"

\* the path of the lock file
lockFilePath(path, name) == path \o name \o LOCK_FILE_SUFFIX

\* open: the lowest descriptor the process has not open (0, 1 and 2 are taken)
lowestFreeFd(p) ==
    LET taken == {f.fd : f \in {g \in openFiles : g.proc = p}}
        free == {fd \in 3..(3 + Cardinality(taken)) : fd \notin taken}
    IN  CHOOSE fd \in free : \A other \in free : fd <= other

\* flock(fd, op) by process p on an open file of the path: whether the lock
\* is in conflict with a lock held through another open file
flockConflict(p, fd, path, op) ==
    \E l \in fileLocks :
        /\ l.path = path
        /\ <<l.proc, l.fd>> # <<p, fd>>
        /\ (LOCK_EX \in op \/ LOCK_EX \in l.op)

\* the locks after flock(fd, op) has succeeded
flock(p, fd, path, op) ==
    LET others == {l \in fileLocks : <<l.proc, l.fd>> # <<p, fd>>}
    IN  IF LOCK_UN \in op
          THEN others
          ELSE others \cup {[proc |-> p, fd |-> fd, path |-> path, op |-> op \ {LOCK_NB}]}

\* the open files and locks after close(fd): the lock goes with the open file
closeFileDescriptor(p, fd) ==
    /\ openFiles' = {f \in openFiles : <<f.proc, f.fd>> # <<p, fd>>}
    /\ fileLocks' = {l \in fileLocks : <<l.proc, l.fd>> # <<p, fd>>}

\* FileLockBuilder::create, first step: the check of the name and open
CreateOpen(p, s, name) ==
    /\ createPc[p] = "idle"
    /\ ~fileLock[p][s].exists
    /\ IF ~isValidFileName(name)
         THEN /\ createResult' = [createResult EXCEPT ![p] = INVALID_FILE_NAME]
              /\ UNCHANGED <<openFiles, createPc, createFd, createPath, createSlot>>
         ELSE LET path == lockFilePath(IOX_LOCK_FILE_PATH_PREFIX, name)
                  fd == lowestFreeFd(p)
              IN  /\ openFiles' = openFiles \cup {[proc |-> p, fd |-> fd, path |-> path]}
                  /\ createPc' = [createPc EXCEPT ![p] = "opened"]
                  /\ createFd' = [createFd EXCEPT ![p] = fd]
                  /\ createPath' = [createPath EXCEPT ![p] = path]
                  /\ createSlot' = [createSlot EXCEPT ![p] = s]
                  /\ createResult' = [createResult EXCEPT ![p] = NO_RESULT]
    /\ UNCHANGED <<fileLocks, fileLock>>

\* FileLockBuilder::create, second step: flock(fd, LOCK_EX | LOCK_NB).  Without
\* LOCK_NB flock waits while the lock is in conflict.
CreateLock(p) ==
    /\ createPc[p] = "opened"
    /\ LET fd == createFd[p]
           path == createPath[p]
           op == LockOperation_LOCK
       IN  IF flockConflict(p, fd, path, op)
             THEN /\ LOCK_NB \in op
                  /\ closeFileDescriptor(p, fd)
                  /\ createResult' = [createResult EXCEPT ![p] = LOCKED_BY_OTHER_PROCESS]
                  /\ UNCHANGED fileLock
             ELSE /\ fileLocks' = flock(p, fd, path, op)
                  /\ fileLock' = [fileLock EXCEPT ![p][createSlot[p]] = NewFileLock(fd, path)]
                  /\ createResult' = [createResult EXCEPT ![p] = CREATED]
                  /\ UNCHANGED openFiles
    /\ createPc' = [createPc EXCEPT ![p] = "idle"]
    /\ createFd' = [createFd EXCEPT ![p] = INVALID_FD]
    /\ createPath' = [createPath EXCEPT ![p] = <<>>]
    /\ createSlot' = [createSlot EXCEPT ![p] = 1]

\* a move constructor that leaves the descriptor with the source as well
MoveConstructKeepsSource(p, s, d) ==
    /\ createPc[p] = "idle"
    /\ fileLock[p][s].exists
    /\ ~fileLock[p][d].exists
    /\ fileLock' = [fileLock EXCEPT ![p][d] = NewFileLock(fileLock[p][s].m_fd,
                                                          fileLock[p][s].m_fileLockPath)]
    /\ createResult' = [createResult EXCEPT ![p] = NO_RESULT]
    /\ UNCHANGED <<openFiles, fileLocks, createPc, createFd, createPath, createSlot>>

\* FileLock::FileLock(FileLock&& rhs): object d is constructed from object s
MoveConstruct(p, s, d) ==
    /\ createPc[p] = "idle"
    /\ fileLock[p][s].exists
    /\ ~fileLock[p][d].exists
    /\ fileLock' = [fileLock EXCEPT ![p][d] = NewFileLock(fileLock[p][s].m_fd,
                                                          fileLock[p][s].m_fileLockPath),
                                    ![p][s] = Invalidated]
    /\ createResult' = [createResult EXCEPT ![p] = NO_RESULT]
    /\ UNCHANGED <<openFiles, fileLocks, createPc, createFd, createPath, createSlot>>

\* FileLock::operator=(FileLock&& rhs): object d = std::move(object s)
MoveAssign(p, s, d) ==
    /\ createPc[p] = "idle"
    /\ fileLock[p][s].exists
    /\ fileLock[p][d].exists
    /\ IF s = d
         THEN UNCHANGED <<openFiles, fileLocks, fileLock>>
         ELSE /\ IF fileLock[p][d].m_fd # INVALID_FD
                   THEN closeFileDescriptor(p, fileLock[p][d].m_fd)
                   ELSE UNCHANGED <<openFiles, fileLocks>>
              /\ fileLock' = [fileLock EXCEPT ![p][d] = NewFileLock(fileLock[p][s].m_fd,
                                                                    fileLock[p][s].m_fileLockPath),
                                              ![p][s] = Invalidated]
    /\ createResult' = [createResult EXCEPT ![p] = NO_RESULT]
    /\ UNCHANGED <<createPc, createFd, createPath, createSlot>>

\* FileLock::~FileLock
Destroy(p, s) ==
    /\ createPc[p] = "idle"
    /\ fileLock[p][s].exists
    /\ IF fileLock[p][s].m_fd # INVALID_FD
         THEN closeFileDescriptor(p, fileLock[p][s].m_fd)
         ELSE UNCHANGED <<openFiles, fileLocks>>
    /\ fileLock' = [fileLock EXCEPT ![p][s] = NoFileLock]
    /\ createResult' = [createResult EXCEPT ![p] = NO_RESULT]
    /\ UNCHANGED <<createPc, createFd, createPath, createSlot>>

\* the process dies keeping the locks of its open files
CrashFileLockKeepsLocks(p) ==
    /\ createPc[p] # "crashed"
    /\ openFiles' = {f \in openFiles : f.proc # p}
    /\ fileLocks' = fileLocks
    /\ fileLock' = [fileLock EXCEPT ![p] = [s \in Slots |-> NoFileLock]]
    /\ createPc' = [createPc EXCEPT ![p] = "crashed"]
    /\ createFd' = [createFd EXCEPT ![p] = INVALID_FD]
    /\ createPath' = [createPath EXCEPT ![p] = <<>>]
    /\ createSlot' = [createSlot EXCEPT ![p] = 1]
    /\ createResult' = [createResult EXCEPT ![p] = NO_RESULT]

\* the process dies (segfault, SIGKILL) at any point, inside create or not,
\* without running a destructor: the operating system closes its files, which
\* releases their locks; its objects are gone with it
CrashFileLock(p) ==
    /\ createPc[p] # "crashed"
    /\ openFiles' = {f \in openFiles : f.proc # p}
    /\ fileLocks' = {l \in fileLocks : l.proc # p}
    /\ fileLock' = [fileLock EXCEPT ![p] = [s \in Slots |-> NoFileLock]]
    /\ createPc' = [createPc EXCEPT ![p] = "crashed"]
    /\ createFd' = [createFd EXCEPT ![p] = INVALID_FD]
    /\ createPath' = [createPath EXCEPT ![p] = <<>>]
    /\ createSlot' = [createSlot EXCEPT ![p] = 1]
    /\ createResult' = [createResult EXCEPT ![p] = NO_RESULT]

\* no call is in progress
Quiescent == \A p \in Procs : pc[p] = "idle"

\* callers that release only chunks they hold
Next ==
    \E p \in Procs :
        \/ GetChunk(p) /\ UNCHANGED exceptPoolVars
        \/ FreeChunk(p) /\ UNCHANGED exceptPoolVars
        \/ Step(p) /\ UNCHANGED exceptPoolVars

Spec == Init /\ [][Next]_vars

\* callers that may release a chunk twice
NextMisuse ==
    \E p \in Procs :
        \/ GetChunk(p) /\ UNCHANGED exceptPoolVars
        \/ FreeChunk(p) /\ UNCHANGED exceptPoolVars
        \/ FreeChunkAgain(p) /\ UNCHANGED exceptPoolVars
        \/ Step(p) /\ UNCHANGED exceptPoolVars

SpecMisuse == Init /\ [][NextMisuse]_vars

\* callers that may release pointers that are no chunks of the pool
NextInvalid ==
    \E p \in Procs :
        \/ GetChunk(p) /\ UNCHANGED exceptPoolVars
        \/ FreeChunk(p) /\ UNCHANGED exceptPoolVars
        \/ FreeNoChunk(p) /\ UNCHANGED exceptPoolVars
        \/ Step(p) /\ UNCHANGED exceptPoolVars

SpecInvalid == Init /\ [][NextInvalid]_vars

\* callers that release only chunks they hold, in processes that may crash
NextCrash ==
    \E p \in Procs :
        \/ GetChunk(p) /\ UNCHANGED exceptPoolVars
        \/ FreeChunk(p) /\ UNCHANGED exceptPoolVars
        \/ Step(p) /\ UNCHANGED exceptPoolVars
        \/ Crash(p) /\ UNCHANGED exceptPoolVars

SpecCrash == Init /\ [][NextCrash]_vars

\* sequential use: a call begins only when no call is in progress
NextSequential ==
    \E p \in Procs :
        \/ Quiescent /\ GetChunk(p) /\ UNCHANGED exceptPoolVars
        \/ Quiescent /\ FreeChunk(p) /\ UNCHANGED exceptPoolVars
        \/ Step(p) /\ UNCHANGED exceptPoolVars

SpecSequential == Init /\ [][NextSequential]_vars

\* callers that take chunks of a new pool and release none
NextAcquire ==
    \E p \in Procs :
        \/ GetChunk(p) /\ UNCHANGED exceptPoolVars
        \/ GetChunkFetchAdd(p) /\ UNCHANGED exceptPoolVars
        \/ AdjustMinFreeLoadUsed(p) /\ UNCHANGED exceptPoolVars
        \/ AdjustMinFreeLoadMinFree(p) /\ UNCHANGED exceptPoolVars
        \/ AdjustMinFreeStore(p) /\ UNCHANGED exceptPoolVars

SpecAcquire == Init /\ [][NextAcquire]_vars

\* processes that create, move and destroy FileLocks, and crash
NextFileLock ==
    \E p \in Procs :
        \/ \E s \in Slots, name \in FileNames : CreateOpen(p, s, name) /\ UNCHANGED exceptFileLockVars
        \/ CreateLock(p) /\ UNCHANGED exceptFileLockVars
        \/ \E s, d \in Slots : MoveConstruct(p, s, d) /\ UNCHANGED exceptFileLockVars
        \/ \E s, d \in Slots : MoveAssign(p, s, d) /\ UNCHANGED exceptFileLockVars
        \/ \E s \in Slots : Destroy(p, s) /\ UNCHANGED exceptFileLockVars
        \/ CrashFileLock(p) /\ UNCHANGED exceptFileLockVars

\* the pool takes no part in it: it is the smallest one
InitFileLock == Init /\ m_numberOfChunks = 1

SpecFileLock == InitFileLock /\ [][NextFileLock]_vars

\* the file names of a process that holds the locks of several files
MoveFileNames == {<<"f">>, <<"g">>, <<"h">>}

\* a process that creates FileLocks of several files, moves and destroys them
\* (what a move does is local to the process of the object)
NextFileLockMove ==
    \E p \in {1} :
        \/ \E s \in Slots, name \in MoveFileNames : CreateOpen(p, s, name) /\ UNCHANGED exceptFileLockVars
        \/ CreateLock(p) /\ UNCHANGED exceptFileLockVars
        \/ \E s, d \in Slots : MoveConstruct(p, s, d) /\ UNCHANGED exceptFileLockVars
        \/ \E s, d \in Slots : MoveAssign(p, s, d) /\ UNCHANGED exceptFileLockVars
        \/ \E s \in Slots : Destroy(p, s) /\ UNCHANGED exceptFileLockVars

SpecFileLockMove == InitFileLock /\ [][NextFileLockMove]_vars

\* the smallest pool and no FileLock take part in the calls below
InitOthers == PoolInit /\ m_numberOfChunks = 1 /\ FileLockInit

\* the operations on a ChunkHeader
NextChunkHeader ==
    \/ \E chunkSize \in ChunkSizes : SetChunkSize(chunkSize) /\ UNCHANGED exceptChunkHeaderVars
    \/ Payload /\ UNCHANGED exceptChunkHeaderVars
    \/ \E payloadPointer \in {NULL, payload(chunkHeader)} :
          FromPayload(payloadPointer) /\ UNCHANGED exceptChunkHeaderVars
    \/ UsedSizeOfChunk /\ UNCHANGED exceptChunkHeaderVars

InitChunkHeader == InitOthers /\ ChunkHeaderInit /\ NoConstruction /\ NoConversion

SpecChunkHeader == InitChunkHeader /\ [][NextChunkHeader]_vars

\* the constructor of the MemPool
NextConstruction == Construct /\ UNCHANGED exceptConstructionVars

InitConstruction == InitOthers /\ NoChunkHeader /\ ConstructionInit /\ NoConversion

SpecConstruction == InitConstruction /\ [][NextConstruction]_vars

\* the conversions between indices and pointers
NextConversion ==
    \/ \E i \in ConversionIndices(conversion.numberOfChunks) :
          IndexToPointerAndBack(i) /\ UNCHANGED exceptConversionVars
    \/ \E chunk \in ConversionPointers(conversion.chunkSize, conversion.rawMemoryBase,
                                        conversion.numberOfChunks) :
          PointerToIndexAndBack(chunk) /\ UNCHANGED exceptConversionVars

InitConversion == InitOthers /\ NoChunkHeader /\ NoConstruction /\ ConversionInit

SpecConversion == InitConversion /\ [][NextConversion]_vars

(***************************************************************************)
(* Properties of the MemPool                                               *)
(***************************************************************************)
\* the address of chunk i
ChunkAddress(i) == RawMemory + i * ChunkSize

\* the processes that hold chunk i: the callers that got its pointer and have
\* not released it, and the processes between the pop of i and getChunk's return
Holders(i) ==
    {p \in Procs : ChunkAddress(i) \in held[p]}
        \cup {p \in Procs : pc[p] \in InGetChunk /\ index[p] = i}

\* the chunk pointers the callers hold
AllHeld == UNION {held[p] : p \in Procs}

\* a <= b as unsigned numbers
LessEq32(a, b) == ~Less32(b, a)

\* C1: every index of the pool is either in the free-index list exactly once
\* or held by exactly one process, never both and never neither, and every
\* pointer a caller holds is rawMemory + index * chunkSize for an index of the
\* pool; so no two callers hold the same chunk.
ChunkOwnership ==
    /\ \A i \in Indices :
         \/ m_freeIndices[i] = 1 /\ Holders(i) = {}
         \/ m_freeIndices[i] = 0 /\ Cardinality(Holders(i)) = 1
    /\ \A p \in Procs : held[p] \subseteq {ChunkAddress(i) : i \in Indices}
    /\ \A p, q \in Procs : p # q => held[p] \cap held[q] = {}

\* C1, its case: two callers hold a chunk each while a chunk is in the list
\* again after a release
ChunkOwnershipWitness ==
    /\ held[1] # {}
    /\ held[2] # {}
    /\ \E p \in Procs : pc[p] = "fetch_sub"

\* C2: a second release of a chunk pointer, with no getChunk call since its
\* release, takes the POSH__MEMPOOL_POSSIBLE_DOUBLE_FREE fatal path, however
\* many other chunks are held.
DoubleFreeIsFatal ==
    [][\A p \in Procs : \A chunk \in released[p] :
          freeChunk(p, chunk) =>
              /\ pc'[p] = "fatal"
              /\ error'[p] = POSH__MEMPOOL_POSSIBLE_DOUBLE_FREE]_vars

\* C3: m_minFree never increases.
MinFreeMonotone == [][LessEq32(m_minFree', m_minFree)]_vars

\* C4: whenever no call is in progress, m_minFree is at most the least
\* m_numberOfChunks - m_usedChunks of all states reached so far.
MinFreeNeverOverestimates == Quiescent => LessEq32(m_minFree, lowestFree)

\* C5: in every state, m_minFree <= m_numberOfChunks - m_usedChunks.
MinFreeAtMostFree == LessEq32(m_minFree, Sub32(m_numberOfChunks, m_usedChunks))

\* C6: whenever no call is in progress, the number of indices in the
\* free-index list plus m_usedChunks is m_numberOfChunks.
Conservation ==
    Quiescent => size(m_freeIndices) + m_usedChunks = m_numberOfChunks

\* C6, its case: no call is in progress, a chunk is held and another one is
\* back in the list after its release
ConservationWitness ==
    /\ Quiescent
    /\ m_numberOfChunks = 2
    /\ held[1] # {}
    /\ released[2] # {}

\* C7: with all chunks of the pool held and no call in progress, getChunk
\* returns nullptr in its first step, without blocking and without a fatal
\* error; with a chunk less held (after one release), getChunk pops an index,
\* and the pointer it returns is not nullptr.
ExhaustionAndRecovery ==
    [][\A p \in Procs :
          /\ (Quiescent /\ GetChunk(p)) =>
                IF Cardinality(AllHeld) = m_numberOfChunks
                  THEN gotNull'[p] /\ pc'[p] = "idle" /\ held' = held
                  ELSE ~gotNull'[p] /\ pc'[p] = "fetch_add"
          /\ (Quiescent /\ Cardinality(AllHeld) = m_numberOfChunks) => ENABLED GetChunk(p)
          /\ AdjustMinFreeStore(p) =>
                \E chunk \in held'[p] \ held[p] : chunk # NULL]_vars

\* C7, its case: all chunks are held and a caller has just got nullptr
ExhaustionWitness ==
    /\ Quiescent
    /\ Cardinality(AllHeld) = m_numberOfChunks
    /\ \E p \in Procs : gotNull[p]

\* the first two conditions of freeChunk's contract, as the claim states them:
\* the pointer is below rawMemory, above the last chunk, or off the chunk
\* boundaries
NoChunk(chunk) ==
    \/ chunk < RawMemory
    \/ chunk > RawMemory + (m_numberOfChunks - 1) * ChunkSize
    \/ (chunk - RawMemory) % ChunkSize # 0

\* how far a process is in its call
Rank(l) ==
    CASE l = "idle" -> 0
      [] l \in {"fetch_add", "fetch_sub"} -> 1
      [] l = "adjustMinFree" -> 2
      [] l \in {"usedLoaded", "minFreeLoaded"} -> 3
      [] l = "store" -> 4
      [] OTHER -> 5

\* C8, in every state: a process that has not crashed can take its next step
\* whatever the other processes do, and whether or not they have crashed; and
\* an index that is neither in the list nor with a surviving process is with
\* a crashed one.
NeverWaits ==
    /\ \A q \in Procs :
         /\ pc[q] = "idle" => ENABLED GetChunk(q)
         /\ (pc[q] = "idle" /\ held[q] # {}) => ENABLED FreeChunk(q)
         /\ pc[q] \in InGetChunk \cup {"fetch_sub"} => ENABLED Step(q)
    /\ \A i \in Indices :
         (m_freeIndices[i] = 0 /\ \A q \in Holders(i) : pc[q] = "crashed")
             => \E q \in Procs : pc[q] = "crashed" /\ ChunkAddress(i) \in held[q]

\* C8: when processes stop for good anywhere inside getChunk or freeChunk, the
\* calls of the others never wait and end after at most five of their own
\* steps (every step moves the call forward), getChunk pops an index whenever
\* the free-index list is not empty, and returns its chunk.
CrashTolerance ==
    /\ []NeverWaits
    /\ [][\A q \in Procs :
            /\ (pc'[q] # pc[q] /\ pc'[q] \notin {"idle", "crashed"})
                   => (Rank(pc[q]) < Rank(pc'[q]) /\ Rank(pc'[q]) <= 4)
            /\ (GetChunk(q) /\ size(m_freeIndices) > 0) => pc'[q] = "fetch_add"
            /\ AdjustMinFreeStore(q) =>
                   held'[q] = held[q] \cup {ChunkAddress(index[q])}]_vars

\* C8, its case: process 1 has crashed between getChunk's pop and fetch_add
\* (a chunk is lost with it and m_usedChunks does not count it), and process 2
\* has got a chunk
CrashToleranceWitness ==
    /\ pc[1] = "crashed" /\ held[1] # {}
    /\ pc[2] = "idle" /\ held[2] # {}
    /\ m_usedChunks = 1

\* C9: freeChunk with a pointer below rawMemory, above the last chunk or off
\* the chunk boundaries takes the fatal path, pushes nothing and leaves
\* m_usedChunks and m_minFree as they are.
InvalidReleaseIsFatal ==
    [][\A p \in Procs : \A chunk \in Pointers :
          (NoChunk(chunk) /\ freeChunk(p, chunk)) =>
              /\ pc'[p] = "fatal"
              /\ error'[p] = EXPECTS_ENSURES_FAILED
              /\ UNCHANGED <<m_freeIndices, m_usedChunks, m_minFree>>]_vars

\* C9, its case: a process has been terminated for releasing an invalid
\* pointer while a chunk was out
InvalidReleaseWitness ==
    /\ \E p \in Procs : pc[p] = "fatal" /\ error[p] = EXPECTS_ENSURES_FAILED
    /\ m_usedChunks = 1
    /\ size(m_freeIndices) = 1

(***************************************************************************)
(* Properties of the FileLock                                              *)
(***************************************************************************)
\* the paths of the lock files create can open
LockFilePaths ==
    {IOX_LOCK_FILE_PATH_PREFIX \o name \o LOCK_FILE_SUFFIX : name \in FileNames}

\* the live FileLock objects that hold the lock of the path
LockHolders(path) ==
    {h \in Procs \X Slots :
        /\ fileLock[h[1]][h[2]].exists
        /\ fileLock[h[1]][h[2]].m_fd # INVALID_FD
        /\ fileLock[h[1]][h[2]].m_fileLockPath = path}

\* C10: in every state, at most one live FileLock object holds the lock of a
\* lock-file path, in all processes together.
FileLockMutualExclusion ==
    \A path \in LockFilePaths : Cardinality(LockHolders(path)) <= 1

\* C10, its case: a FileLock that was moved to another object holds the lock
\* of a path while another process has the same file open and is about to ask
\* for the lock
FileLockMutualExclusionWitness ==
    \E p, q \in Procs :
        /\ p # q
        /\ createPc[q] = "opened"
        /\ \E s, d \in Slots :
              /\ s # d
              /\ fileLock[p][s] = Invalidated
              /\ fileLock[p][d].m_fd # INVALID_FD
              /\ fileLock[p][d].m_fileLockPath = createPath[q]

\* the live FileLock objects of other processes than p that hold the lock of
\* the path
PeerHolders(p, path) == {h \in LockHolders(path) : h[1] # p}

\* C11: create never waits for the lock.  A process that has opened the lock
\* file can always take its flock step; while a FileLock object of a peer
\* holds the lock of the path, that step returns LOCKED_BY_OTHER_PROCESS,
\* creates no object and closes the descriptor it had opened; and when no
\* FileLock object holds the lock of the path (it was never taken, or its
\* holder has been destroyed), that step returns a FileLock that holds the
\* lock.
CreateNeverWaits ==
    [][\A p \in Procs :
          /\ createPc[p] = "opened" => ENABLED CreateLock(p)
          /\ (CreateLock(p) /\ PeerHolders(p, createPath[p]) # {}) =>
                 /\ createResult'[p] = LOCKED_BY_OTHER_PROCESS
                 /\ fileLock' = fileLock
                 /\ fileLocks' = fileLocks
                 /\ \A f \in openFiles' : <<f.proc, f.fd>> # <<p, createFd[p]>>
          /\ (CreateLock(p) /\ LockHolders(createPath[p]) = {}) =>
                 /\ createResult'[p] = CREATED
                 /\ fileLock'[p][createSlot[p]] = NewFileLock(createFd[p], createPath[p])
                 /\ \E l \in fileLocks' :
                        /\ l.proc = p
                        /\ l.fd = createFd[p]
                        /\ l.path = createPath[p]]_vars

\* C11, its case: a create has just returned LOCKED_BY_OTHER_PROCESS to a
\* process while a FileLock object of a peer holds the lock of the path
CreateNeverWaitsWitness ==
    \E p \in Procs :
        /\ createResult[p] = LOCKED_BY_OTHER_PROCESS
        /\ \E path \in LockFilePaths : PeerHolders(p, path) # {}
Owners(p, fd) == {s \in Slots : fileLock[p][s].exists /\ fileLock[p][s].m_fd = fd}

\* the open file of the descriptor of a FileLock object
FileOf(p, object) == [proc |-> p, fd |-> object.m_fd, path |-> object.m_fileLockPath]

\* C13, in every state: a descriptor that create has locked is open, holds
\* its lock and belongs to exactly one live FileLock object (it has not been
\* closed before its owner was destroyed or assigned to, and no second object
\* is left to close it again); the only open descriptor without an owner is
\* the one of a create in progress.
DescriptorOwnedOnce ==
    /\ \A f \in openFiles :
          IF createPc[f.proc] = "opened" /\ createFd[f.proc] = f.fd
            THEN Owners(f.proc, f.fd) = {}
            ELSE /\ Cardinality(Owners(f.proc, f.fd)) = 1
                 /\ \E l \in fileLocks : l.proc = f.proc /\ l.fd = f.fd /\ l.path = f.path
    /\ \A p \in Procs : \A s \in Slots :
          (fileLock[p][s].exists /\ fileLock[p][s].m_fd # INVALID_FD)
              => FileOf(p, fileLock[p][s]) \in openFiles

\* C13: after a move construction or a move assignment the destination has
\* the descriptor and the path of the source and the source has INVALID_FD;
\* the move construction closes nothing, the move assignment closes the
\* descriptor the destination had (and no other), the destructor of an object
\* with INVALID_FD closes nothing, and the destructor of an object with a
\* descriptor closes that descriptor, which is open (so it is closed once).
MoveKeepsOneOwner ==
    /\ []DescriptorOwnedOnce
    /\ [][\A p \in Procs : \A s, d \in Slots :
            /\ MoveConstruct(p, s, d) =>
                   /\ fileLock'[p][d] = NewFileLock(fileLock[p][s].m_fd,
                                                    fileLock[p][s].m_fileLockPath)
                   /\ fileLock'[p][s].m_fd = INVALID_FD
                   /\ UNCHANGED <<openFiles, fileLocks>>
            /\ (MoveAssign(p, s, d) /\ s # d) =>
                   /\ fileLock'[p][d] = NewFileLock(fileLock[p][s].m_fd,
                                                    fileLock[p][s].m_fileLockPath)
                   /\ fileLock'[p][s].m_fd = INVALID_FD
                   /\ openFiles' = openFiles \ {FileOf(p, fileLock[p][d])}
                   /\ fileLock[p][d].m_fd # INVALID_FD
                          => FileOf(p, fileLock[p][d]) \in openFiles
            /\ (Destroy(p, s) /\ fileLock[p][s].m_fd = INVALID_FD) =>
                   UNCHANGED <<openFiles, fileLocks>>
            /\ (Destroy(p, s) /\ fileLock[p][s].m_fd # INVALID_FD) =>
                   /\ FileOf(p, fileLock[p][s]) \in openFiles
                   /\ openFiles' = openFiles \ {FileOf(p, fileLock[p][s])}
                   /\ \A l \in fileLocks' :
                          <<l.proc, l.fd>> # <<p, fileLock[p][s].m_fd>>]_vars

\* C13, its case: a process that had two descriptors open has one object
\* that was moved from and one that owns the second descriptor it opened,
\* and that descriptor is its only open file
MoveKeepsOneOwnerWitness ==
    \E p \in Procs : \E s, d \in Slots :
        /\ createPc[p] = "idle"
        /\ fileLock[p][s] = Invalidated
        /\ fileLock[p][d].exists
        /\ fileLock[p][d].m_fd = 4
        /\ {f \in openFiles : f.proc = p} = {FileOf(p, fileLock[p][d])}
(***************************************************************************)
(* Properties of the MemPool in sequential use and after construction      *)
(***************************************************************************)
\* C14: in sequential use, whenever no call is in progress, m_minFree is the
\* least m_numberOfChunks - m_usedChunks of all states since the
\* construction; it is not raised again by a release.
MinFreeIsLowWaterMark == Quiescent => m_minFree = lowestFree

\* C14, its case: both chunks of a pool were held at the same time and have
\* been released, and m_minFree is 0
MinFreeIsLowWaterMarkWitness ==
    /\ Quiescent
    /\ m_numberOfChunks = 2
    /\ m_usedChunks = 0
    /\ size(m_freeIndices) = 2
    /\ m_minFree = 0

\* the getChunk calls that have popped an index
InFlight == {p \in Procs : pc[p] \in InGetChunk}

\* the number of getChunk calls that have popped an index, while no chunk is
\* released: those counted by m_usedChunks and those about to be
Acquired == m_usedChunks + Cardinality({p \in Procs : pc[p] = "fetch_add"})

\* the pointers those calls have returned or are about to return
AcquiredPointers == AllHeld \cup {ChunkAddress(index[p]) : p \in InFlight}

\* C18: after the construction m_usedChunks is 0, m_minFree is
\* m_numberOfChunks and every index of the pool is in the free-index list
\* once; as long as no chunk is released, getChunk pops an index exactly
\* when fewer than m_numberOfChunks calls have done so, which makes
\* m_numberOfChunks successful calls, and the pointers of the successful calls
\* are as many as the calls (pairwise distinct) and are chunks of the pool.
ConstructionPostState ==
    /\ m_usedChunks = 0
    /\ m_minFree = m_numberOfChunks
    /\ DOMAIN m_freeIndices = Indices
    /\ \A i \in Indices : m_freeIndices[i] = 1
    /\ [](/\ Acquired + size(m_freeIndices) = m_numberOfChunks
          /\ Cardinality(AcquiredPointers) = Acquired
          /\ AcquiredPointers \subseteq {ChunkAddress(i) : i \in Indices})
    /\ [][\A p \in Procs :
            GetChunk(p) =>
                IF Acquired < m_numberOfChunks
                  THEN ~gotNull'[p] /\ pc'[p] = "fetch_add"
                  ELSE gotNull'[p] /\ pc'[p] = "idle"]_vars

\* C18, its case: two calls have returned the two chunks of a new pool and a
\* third call has returned nullptr
ConstructionPostStateWitness ==
    /\ m_numberOfChunks = 2
    /\ Acquired = 2
    /\ Cardinality(AllHeld) = 2
    /\ \E p \in Procs : gotNull[p]
(***************************************************************************)
(* Properties of the ChunkHeader                                           *)
(***************************************************************************)
\* a + b > c for uint32_t a, b and c, with the sum not taken modulo 2^32:
\* b alone exceeds c, or a exceeds what b leaves of c
SumExceeds(a, b, c) == Less32(c, b) \/ Less32(Sub32(c, b), a)

\* a + b modulo 2^32
Add32(a, b) == Sub32(a, Sub32(0, b))

\* C15: usedSizeOfChunk returns payloadOffset + payloadSize when that sum is
\* at most chunkSize, and terminates the process when the sum, not taken
\* modulo 2^32, exceeds chunkSize.
UsedSizeOfChunkIsExact ==
    headerResult.op = OP_USED_SIZE_OF_CHUNK =>
        IF SumExceeds(chunkHeader.payloadOffset, chunkHeader.payloadSize,
                      chunkHeader.chunkSize)
          THEN headerResult.fatal
          ELSE /\ ~headerResult.fatal
               /\ headerResult.value = Add32(chunkHeader.payloadOffset,
                                             chunkHeader.payloadSize)

\* C15, its case: usedSizeOfChunk has terminated the process for a header
\* with payloadSize = 2^32 - 1 and chunkSize = 2 * sizeof(ChunkHeader), where
\* the sum modulo 2^32 is below chunkSize
UsedSizeOfChunkIsExactWitness ==
    /\ headerResult.op = OP_USED_SIZE_OF_CHUNK
    /\ headerResult.fatal
    /\ chunkHeader.payloadSize = UINT32_MAX
    /\ chunkHeader.chunkSize = 2 * sizeofChunkHeader
    /\ LessEq32(Add32(chunkHeader.payloadOffset, chunkHeader.payloadSize),
                chunkHeader.chunkSize)

\* C16: fromPayload(nullptr) is nullptr, and fromPayload of the pointer
\* payload() returns is the address of the ChunkHeader, for chunks without
\* and with a custom header.
HeaderRoundTrip ==
    headerResult.op = OP_FROM_PAYLOAD =>
        /\ ~headerResult.fatal
        /\ headerResult.arg = NULL => headerResult.value = NULL
        /\ headerResult.arg = payload(chunkHeader) =>
               headerResult.value = chunkHeader.this

\* C16, its case: fromPayload has returned the header of a chunk with a
\* custom header of 13 bytes and a payload aligned to 8, which leaves a gap
\* between the custom header and the back-offset field
HeaderRoundTripWitness ==
    /\ headerResult.op = OP_FROM_PAYLOAD
    /\ headerResult.arg = payload(chunkHeader)
    /\ headerResult.value = chunkHeader.this
    /\ chunkLayout.customHeaderSize = 13
    /\ chunkLayout.payloadAlignment = 8
    /\ chunkHeader.payloadOffset >
           sizeofChunkHeader + chunkLayout.customHeaderSize + sizeofPayloadOffset

\* C17: a ChunkHeader the constructor has produced has
\* payloadOffset + payloadSize <= chunkSize.
ConstructedPayloadFits ==
    headerResult.op = OP_CONSTRUCTOR =>
        ~SumExceeds(chunkHeader.payloadOffset, chunkHeader.payloadSize,
                    chunkHeader.chunkSize)

(***************************************************************************)
(* Properties of MemPool's constructor and of the conversions              *)
(***************************************************************************)
\* chunkSize is no multiple of CHUNK_MEMORY_ALIGNMENT: 2^16 is one, so the
\* lowest digit decides
Misaligned == construction.chunkSize[4] % CHUNK_MEMORY_ALIGNMENT # 0

\* chunkSize * numberOfChunks does not fit 64 bits: the product has a fifth
\* digit
ProductOverflows == Head(Mul64(construction.chunkSize, construction.numberOfChunks, 0)) # 0

\* the chunk-memory allocator has not the memory for the chunks
ChunkMemoryMissing ==
    ~LessEq64(allocationSize(construction.numberOfChunks, construction.chunkSize),
              construction.chunkMemoryCapacity)

\* C19 as stated: the constructor terminates the process exactly when
\* chunkSize is no multiple of CHUNK_MEMORY_ALIGNMENT or
\* chunkSize * numberOfChunks does not fit 64 bits, and then no chunk memory
\* is allocated and the free-index list is not initialised.
ConstructionFatalOnArgumentsOnly ==
    construction.state # CALLED =>
        /\ construction.state = FATAL <=> (Misaligned \/ ProductOverflows)
        /\ construction.state = FATAL =>
               /\ construction.m_rawMemory = NO_MEMORY
               /\ construction.m_freeIndices = 0

\* C19, amended: the constructor terminates the process exactly when
\* chunkSize is no multiple of CHUNK_MEMORY_ALIGNMENT, or
\* chunkSize * numberOfChunks does not fit 64 bits, or one of the two
\* allocators has not the memory asked for.  The free-index list is
\* initialised in none of these cases; no chunk memory is allocated in the
\* first three, and in the last one (the management allocator fails) the
\* chunk memory has been allocated before.
ConstructionFatalCases ==
    construction.state # CALLED =>
        IF Misaligned \/ ProductOverflows \/ ChunkMemoryMissing
          THEN /\ construction.state = FATAL
               /\ construction.m_rawMemory = NO_MEMORY
               /\ construction.m_freeIndices = 0
        ELSE IF ~construction.managementMemoryAvailable
          THEN /\ construction.state = FATAL
               /\ construction.m_rawMemory # NO_MEMORY
               /\ construction.m_freeIndices = 0
        ELSE /\ construction.state = CONSTRUCTED
             /\ construction.m_rawMemory =
                    allocationSize(construction.numberOfChunks, construction.chunkSize)
             /\ construction.m_freeIndices = construction.numberOfChunks

\* C19, its case: the constructor has terminated the process for 2 chunks of
\* 2^63 bytes, whose product is 2^64, with allocators that have the memory
ConstructionFatalCasesWitness ==
    /\ construction.state = FATAL
    /\ construction.error = EXPECTS_ENSURES_FAILED
    /\ construction.chunkSize = <<TwoTo16 \div 2, 0, 0, 0>>
    /\ construction.numberOfChunks = 2
    /\ construction.chunkMemoryCapacity = UINT64_MAX
    /\ construction.managementMemoryAvailable

\* the pointer is the begin of a chunk of the pool
ChunkOfConversion(chunk) ==
    /\ conversion.rawMemoryBase <= chunk
    /\ chunk <= conversion.rawMemoryBase
                    + (conversion.numberOfChunks - 1) * conversion.chunkSize
    /\ (chunk - conversion.rawMemoryBase) % conversion.chunkSize = 0

\* C20: pointerToIndex(indexToPointer(i)) is i for every index i of the pool,
\* and indexToPointer(pointerToIndex(chunk)) is chunk for every pointer to
\* the begin of a chunk of the pool; neither call terminates the process.
IndexPointerRoundTrip ==
    /\ conversion.op = OP_INDEX_TO_POINTER =>
           /\ ~conversion.fatal
           /\ conversion.index = conversion.arg
    /\ (conversion.op = OP_POINTER_TO_INDEX /\ ChunkOfConversion(conversion.arg)) =>
           /\ ~conversion.fatal
           /\ conversion.pointer = conversion.arg

\* C20, its case: the pointer to the last of 1000 chunks of 33 bytes has
\* been converted to its index and back
IndexPointerRoundTripWitness ==
    /\ conversion.op = OP_POINTER_TO_INDEX
    /\ conversion.chunkSize = 33
    /\ conversion.numberOfChunks = 1000
    /\ conversion.index = 999
    /\ conversion.pointer = conversion.rawMemoryBase + 999 * 33

\* C21: in every state 0 <= m_usedChunks <= m_numberOfChunks, and the value
\* of m_usedChunks that adjustMinFree has loaded is at most m_numberOfChunks,
\* so that m_numberOfChunks - m_usedChunks does not wrap around.
UsedChunksInRange ==
    /\ 0 <= m_usedChunks
    /\ m_usedChunks <= m_numberOfChunks
    /\ \A p \in Procs :
          pc[p] \in {"usedLoaded", "store"} => LessEq32(loadedUsed[p], m_numberOfChunks)

\* C22: a getChunk call that finds the free-index list empty and returns
\* nullptr leaves m_usedChunks, m_minFree and the free-index list as they
\* were, whatever the other processes are doing.
FailedAcquireChangesNothing ==
    [][\A p \in Procs :
          (~gotNull[p] /\ gotNull'[p]) =>
              /\ popCandidates(m_freeIndices) = {}
              /\ m_usedChunks' = m_usedChunks
              /\ m_minFree' = m_minFree
              /\ m_freeIndices' = m_freeIndices]_vars

\* C22, its case: a getChunk call has returned nullptr while another process
\* had popped the last index and not yet counted it
FailedAcquireChangesNothingWitness ==
    \E p \in Procs :
        /\ gotNull[p]
        /\ \E q \in Procs \ {p} : pc[q] = "fetch_add"
        /\ m_usedChunks < m_numberOfChunks

=============================================================================
